---- MODULE Spec2Model ----
(***************************************************************************)
(* backend-error-handler: the Handler-Boundary Wrapper (asyncHandler) and  *)
(* the Layer Wrappers (trycatchWrapper, trycatchWrapperMongo,              *)
(* trycatchWrapperPrisma), modelled as one request travelling through an   *)
(* asyncHandler-wrapped request handler that may call a chain of layer     *)
(* wrappers around a repository function.                                  *)
(*                                                                         *)
(* The request handler, the repository function and `next` are code of the *)
(* application, not of the package: they are the environment, and every    *)
(* behaviour JavaScript allows them is a nondeterministic choice.          *)
(***************************************************************************)
EXTENDS Integers, Sequences, FiniteSets, TLC

(* ----------------------------- bounds ---------------------------------- *)

\* longest chain of nested layer wrappers around the repository function
MaxDepth == 2
\* most arguments a layer-wrapped function is called with
MaxArgs == 2
\* most calls of next the request handler makes itself
MaxHandlerNext == 1

(* ----------------------------- values ---------------------------------- *)
\* Every JavaScript value of the model is a record of one shape.  `id` is the
\* object identity (0 for primitives, which are identical when equal).

NoDetail == [code |-> 0, keyValue |-> "", pcode |-> "", meta |-> "", rawMessage |-> ""]

Undefined ==
    [kind |-> "undefined", id |-> 0, category |-> "", message |-> "undefined",
     statusCode |-> 0, code |-> 0, keyValue |-> "", pcode |-> "", meta |-> "",
     detail |-> NoDetail]

Null ==
    [kind |-> "null", id |-> 0, category |-> "", message |-> "null",
     statusCode |-> 0, code |-> 0, keyValue |-> "", pcode |-> "", meta |-> "",
     detail |-> NoDetail]

\* the driver's duplicate-key error {code: 11000, keyValue: {email: "a@b.com"}}
MongoDup ==
    [kind |-> "object", id |-> 1, category |-> "", message |-> "E11000 duplicate key",
     statusCode |-> 0, code |-> 11000, keyValue |-> "email", pcode |-> "", meta |-> "",
     detail |-> NoDetail]

\* a Prisma known-request error {code: "P2002", meta: {target: "email"}}
PrismaUnique ==
    [kind |-> "object", id |-> 2, category |-> "", message |-> "Unique constraint failed",
     statusCode |-> 0, code |-> 0, keyValue |-> "", pcode |-> "P2002", meta |-> "target",
     detail |-> NoDetail]

\* new Error("boom"): no library fields at all
PlainError ==
    [kind |-> "object", id |-> 3, category |-> "", message |-> "boom",
     statusCode |-> 0, code |-> 0, keyValue |-> "", pcode |-> "", meta |-> "",
     detail |-> NoDetail]

\* a Tagged Error made deeper in the call stack: AppError.notFound("X not found")
NotFound ==
    [kind |-> "AppError", id |-> 4, category |-> "not-found", message |-> "X not found",
     statusCode |-> 404, code |-> 0, keyValue |-> "", pcode |-> "", meta |-> "",
     detail |-> NoDetail]

\* what `next` throws when the application's next throws
NextFailure ==
    [kind |-> "object", id |-> 5, category |-> "", message |-> "next failed",
     statusCode |-> 0, code |-> 0, keyValue |-> "", pcode |-> "", meta |-> "",
     detail |-> NoDetail]

\* a successful result {id: 1}
Data ==
    [kind |-> "data", id |-> 6, category |-> "", message |-> "",
     statusCode |-> 0, code |-> 0, keyValue |-> "", pcode |-> "", meta |-> "",
     detail |-> NoDetail]

\* a second argument value
Data2 ==
    [kind |-> "data", id |-> 7, category |-> "", message |-> "",
     statusCode |-> 0, code |-> 0, keyValue |-> "", pcode |-> "", meta |-> "",
     detail |-> NoDetail]

\* anything JavaScript can throw or reject with
Throwables == {Undefined, Null, MongoDup, PrismaUnique, NotFound}

\* what the handler passes to next itself: nothing, or an error of its own
NextArgs == {Undefined, PlainError}

\* what a function can return or fulfil with
Results == {Undefined, Data}

\* argument values
ArgValues == {Data, Data2}

\* error instanceof AppError
IsAppError(v) == v.kind = "AppError"

\* the truthiness test `next` applies to its argument: next() and next(null)
\* continue the normal chain, anything else is an error dispatch
IsErrorArg(v) == v.kind \notin {"undefined", "null"}

\* the first identity the program can give to an object it creates
FirstFreshId == Data2.id + 1

(* --------------------------- completions ------------------------------- *)
\* What evaluating a call expression gives: a plain value, a synchronous
\* throw, or a promise / foreign thenable that fulfils or rejects.

Completion(type, state, value) == [type |-> type, state |-> state, value |-> value]

NoCompletion == Completion("none", "none", Undefined)

\* everything a function written by the application can do when called
Behaviours ==
    {Completion("value", "none", v) : v \in Results}
    \cup {Completion("throw", "none", e) : e \in Throwables}
    \cup {Completion(t, "fulfilled", v) : t \in {"promise", "thenable"}, v \in Results}
    \cup {Completion(t, "rejected", e) : t \in {"promise", "thenable"}, e \in Throwables}

\* what the repository function does when called: it returns a value, throws,
\* or is an async function whose promise fulfils or rejects
FnBehaviours == {c \in Behaviours : c.type # "thenable"}

Failed(c) == c.type = "throw" \/ c.state = "rejected"

\* try { await <call> }: the value the await yields, or the error the catch
\* clause receives.  A synchronous throw of the call and a rejection of the
\* awaited promise or thenable reach the catch clause alike; a plain value is
\* awaited as an already fulfilled promise.
TryAwait(c) ==
    IF Failed(c) THEN [ok |-> FALSE, value |-> c.value]
                 ELSE [ok |-> TRUE, value |-> c.value]

\* an entry of the trace of observable events
Event(ev, who, level, val) == [ev |-> ev, who |-> who, level |-> level, val |-> val]

(* ------------------------ the Tagged Error ----------------------------- *)
\* AppError.mongoError(message, originalError): a new Tagged Error of category
\* mongo that carries the normalised fields of the original as its detail; an
\* original without a numeric code leaves only its string form.
mongoError(message, originalError, id) ==
    [kind |-> "AppError", id |-> id, category |-> "mongo", message |-> message,
     statusCode |-> 500, code |-> 0, keyValue |-> "", pcode |-> "", meta |-> "",
     detail |-> IF originalError.code # 0
                THEN [code |-> originalError.code, keyValue |-> originalError.keyValue,
                      pcode |-> "", meta |-> "", rawMessage |-> originalError.message]
                ELSE [code |-> 0, keyValue |-> "", pcode |-> "", meta |-> "",
                      rawMessage |-> originalError.message]]

\* AppError.prismaError(message, originalError): the same for category prisma,
\* with the library's code string and meta object.
prismaError(message, originalError, id) ==
    [kind |-> "AppError", id |-> id, category |-> "prisma", message |-> message,
     statusCode |-> 500, code |-> 0, keyValue |-> "", pcode |-> "", meta |-> "",
     detail |-> IF originalError.pcode # ""
                THEN [code |-> 0, keyValue |-> "", pcode |-> originalError.pcode,
                      meta |-> originalError.meta, rawMessage |-> originalError.message]
                ELSE [code |-> 0, keyValue |-> "", pcode |-> "", meta |-> "",
                      rawMessage |-> originalError.message]]

(* ------------------------ the wrappers' code --------------------------- *)
\* Each operator is the body of the async function a wrapper returns, applied
\* to the completion c of the call it makes in its try block.  `result` is how
\* the promise the async function returned settles, `logs` what it wrote to
\* the console and `calls` the arguments of its calls of next, in the order
\* the code makes them.

\* Spread with the arguments handed on in reverse order
Spread_Reversed(args) == [i \in 1..Len(args) |-> args[Len(args) + 1 - i]]

\* fn(...args) after (...args): the rest parameter collects the arguments in
\* order and the spread hands them on one by one
Spread(args) == [i \in 1..Len(args) |-> args[i]]

\* asyncHandler forwarding a copy of the error instead of the error
asyncHandler_Copy(c, nextFails) ==
    LET r == TryAwait(c) IN
    IF r.ok
    THEN [calls |-> <<>>, result |-> Completion("promise", "fulfilled", Undefined)]
    ELSE [calls |-> <<[r.value EXCEPT !.id = r.value.id + 100]>>,
          result |-> IF nextFails
                     THEN Completion("promise", "rejected", NextFailure)
                     ELSE Completion("promise", "fulfilled", Undefined)]

\* asyncHandler calling next a second time after the catch clause
asyncHandler_Twice(c, nextFails) ==
    LET r == TryAwait(c) IN
    IF r.ok
    THEN [calls |-> <<>>, result |-> Completion("promise", "fulfilled", Undefined)]
    ELSE [calls |-> <<r.value, r.value>>,
          result |-> IF nextFails
                     THEN Completion("promise", "rejected", NextFailure)
                     ELSE Completion("promise", "fulfilled", Undefined)]

\* asyncHandler calling next() once the handler is through, as a middleware would
asyncHandler_NextOnSuccess(c, nextFails) ==
    LET r == TryAwait(c) IN
    IF r.ok
    THEN [calls |-> <<Undefined>>,
          result |-> IF nextFails
                     THEN Completion("promise", "rejected", NextFailure)
                     ELSE Completion("promise", "fulfilled", Undefined)]
    ELSE [calls |-> <<r.value>>,
          result |-> IF nextFails
                     THEN Completion("promise", "rejected", NextFailure)
                     ELSE Completion("promise", "fulfilled", Undefined)]

\* asyncHandler rethrowing the error after next(error)
asyncHandler_Rethrows(c, nextFails) ==
    LET r == TryAwait(c) IN
    IF r.ok
    THEN [calls |-> <<>>, result |-> Completion("promise", "fulfilled", Undefined)]
    ELSE [calls |-> <<r.value>>,
          result |-> IF nextFails
                     THEN Completion("promise", "rejected", NextFailure)
                     ELSE Completion("promise", "rejected", r.value)]

\* asyncHandler: try { await Promise.resolve(requestHandler(req, res, next)) }
\* catch (error) { next(error) }.  An exception of next inside the catch
\* clause is caught by nothing and rejects the promise of the async function.
asyncHandler(c, nextFails) ==
    LET r == TryAwait(c) IN
    IF r.ok
    THEN [calls |-> <<>>, result |-> Completion("promise", "fulfilled", Undefined)]
    ELSE [calls |-> <<r.value>>,
          result |-> IF nextFails
                     THEN Completion("promise", "rejected", NextFailure)
                     ELSE Completion("promise", "fulfilled", Undefined)]

\* trycatchWrapper with an empty catch clause
trycatchWrapper_Swallows(c, id) ==
    LET r == TryAwait(c) IN
    IF r.ok
    THEN [logs |-> <<>>, result |-> Completion("promise", "fulfilled", r.value)]
    ELSE [logs |-> <<>>, result |-> Completion("promise", "fulfilled", Undefined)]

\* trycatchWrapper tagging the error as the Mongo wrapper does
trycatchWrapper_Tags(c, id) ==
    LET r == TryAwait(c) IN
    IF r.ok
    THEN [logs |-> <<>>, result |-> Completion("promise", "fulfilled", r.value)]
    ELSE [logs |-> <<>>,
          result |-> Completion("promise", "rejected", mongoError("Error", r.value, id))]

\* trycatchWrapper: try { return await fn(...args) } catch (error) { throw error }
trycatchWrapper(c, id) ==
    LET r == TryAwait(c) IN
    IF r.ok
    THEN [logs |-> <<>>, result |-> Completion("promise", "fulfilled", r.value)]
    ELSE [logs |-> <<>>, result |-> Completion("promise", "rejected", r.value)]

\* trycatchWrapperMongo rethrowing what it caught
trycatchWrapperMongo_PassThrough(c, id) ==
    LET r == TryAwait(c) IN
    IF r.ok
    THEN [logs |-> <<>>, result |-> Completion("promise", "fulfilled", r.value)]
    ELSE [logs |-> <<>>, result |-> Completion("promise", "rejected", r.value)]

\* trycatchWrapperMongo: ... catch (error) { throw AppError.mongoError("Mongo Error", error) }
trycatchWrapperMongo(c, id) ==
    LET r == TryAwait(c) IN
    IF r.ok
    THEN [logs |-> <<>>, result |-> Completion("promise", "fulfilled", r.value)]
    ELSE [logs |-> <<>>,
          result |-> Completion("promise", "rejected", mongoError("Mongo Error", r.value, id))]

\* trycatchWrapperPrisma without its console.log
trycatchWrapperPrisma_NoLog(c, id) ==
    LET r == TryAwait(c) IN
    IF r.ok
    THEN [logs |-> <<>>, result |-> Completion("promise", "fulfilled", r.value)]
    ELSE [logs |-> <<>>,
          result |-> Completion("promise", "rejected", prismaError("Prisma Error", r.value, id))]

\* trycatchWrapperPrisma: ... catch (error) { console.log("Prisma Error:", error);
\*                                            throw AppError.prismaError("Prisma Error", error) }
trycatchWrapperPrisma(c, id) ==
    LET r == TryAwait(c) IN
    IF r.ok
    THEN [logs |-> <<>>, result |-> Completion("promise", "fulfilled", r.value)]
    ELSE [logs |-> <<r.value>>,
          result |-> Completion("promise", "rejected", prismaError("Prisma Error", r.value, id))]

\* the three layer wrappers the package exports
Wrappers == {"generic", "mongo", "prisma"}

\* the async function of the wrapper of kind w
LayerBody(w, c, id) ==
    CASE w = "generic" -> trycatchWrapper(c, id)
      [] w = "mongo" -> trycatchWrapperMongo(c, id)
      [] w = "prisma" -> trycatchWrapperPrisma(c, id)

(* ------------------------------ state ---------------------------------- *)
VARIABLES
    pc,         \* where the request is
    nextThrows, \* whether the application's next throws when called
    hcomp,      \* the completion of requestHandler(req, res, next)
    nextCalls,  \* the calls of next so far: who made them, with what
    resWrites,  \* the writes to the response object
    returned,   \* the promise the asyncHandler-wrapped function returned
    events,     \* the trace of observable events, in order
    chain,      \* the layer wrappers around the repository function, outermost first
    args,       \* the arguments the handler calls the outermost wrapper with
    depth,      \* the level the call is at: 0 the handler, Len(chain) + 1 the function
    received,   \* received[i]: the arguments level i was called with
    fcomp,      \* the completion of the repository function
    lcomp,      \* the completion travelling up the chain
    settled,    \* how each wrapper settled: what it saw, what it returned
    nextId      \* the identity of the next object created

vars == <<pc, nextThrows, hcomp, nextCalls, resWrites, returned, events,
          chain, args, depth, received, fcomp, lcomp, settled, nextId>>

handlerVars == <<hcomp, nextCalls, resWrites, returned>>
layerVars == <<chain, args, depth, received, fcomp, lcomp, settled, nextId>>

Pending == Completion("promise", "pending", Undefined)

\* the sequences over S of length at most n
RECURSIVE SeqsUpTo(_, _)
SeqsUpTo(S, n) ==
    IF n = 0 THEN {<<>>}
    ELSE LET shorter == SeqsUpTo(S, n - 1) IN
         shorter \cup {Append(q, x) : q \in shorter, x \in S}

Chains == SeqsUpTo(Wrappers, MaxDepth) \ {<<>>}
ArgLists == SeqsUpTo(ArgValues, MaxArgs)

\* the calls of next made by `who`
CallsBy(who) == SelectSeq(nextCalls, LAMBDA k : k.by = who)

Init ==
    /\ pc = "start"
    /\ nextThrows \in BOOLEAN
    /\ hcomp = NoCompletion
    /\ nextCalls = <<>>
    /\ resWrites = 0
    /\ returned = NoCompletion
    /\ events = <<>>
    /\ chain = <<>>
    /\ args = <<>>
    /\ depth = 0
    /\ received = <<>>
    /\ fcomp = NoCompletion
    /\ lcomp = NoCompletion
    /\ settled = <<>>
    /\ nextId = FirstFreshId

(* ------------------------ the request handler -------------------------- *)
\* The framework calls the wrapped handler: the async function starts, hands
\* its caller a promise and calls requestHandler(req, res, next).
Invoke ==
    /\ pc = "start"
    /\ pc' = "handler"
    /\ returned' = Pending
    /\ events' = Append(events, Event("invoke", "wrapper", 0, Undefined))
    /\ UNCHANGED <<nextThrows, hcomp, nextCalls, resWrites>>
    /\ UNCHANGED layerVars

\* The handler calls next itself, with an error or with nothing.  A next that
\* throws ends the handler with that exception.
HandlerCallsNext(v) ==
    /\ pc = "handler"
    /\ Len(CallsBy("handler")) < MaxHandlerNext
    /\ nextCalls' = Append(nextCalls, [by |-> "handler", arg |-> v])
    /\ IF nextThrows
       THEN /\ hcomp' = Completion("throw", "none", NextFailure)
            /\ pc' = "handled"
            /\ events' = events \o <<Event("next", "handler", 0, v),
                                     Event("fail", "handler", 0, NextFailure)>>
       ELSE /\ events' = Append(events, Event("next", "handler", 0, v))
            /\ UNCHANGED <<hcomp, pc>>
    /\ UNCHANGED <<nextThrows, resWrites, returned>>
    /\ UNCHANGED layerVars

\* The handler sends the response: res.status(200).json(...)
HandlerSends ==
    /\ pc = "handler"
    /\ resWrites = 0
    /\ resWrites' = 1
    /\ events' = Append(events, Event("send", "handler", 0, Undefined))
    /\ UNCHANGED <<pc, nextThrows, hcomp, nextCalls, returned>>
    /\ UNCHANGED layerVars

\* The handler ends: it returns a value, throws, or returns a promise or a
\* thenable that fulfils or rejects.
HandlerCompletes(c) ==
    /\ pc = "handler"
    /\ hcomp' = c
    /\ pc' = "handled"
    /\ events' = IF Failed(c) THEN Append(events, Event("fail", "handler", 0, c.value))
                              ELSE events
    /\ UNCHANGED <<nextThrows, nextCalls, resWrites, returned>>
    /\ UNCHANGED layerVars

(* --------------------------- the layer call ---------------------------- *)
\* The handler awaits a layer-wrapped repository function before anything
\* else, as in `const response = await userService.createUser(data)`.
HandlerCallsLayer(ch, a) ==
    /\ pc = "handler"
    /\ nextCalls = <<>>
    /\ resWrites = 0
    /\ pc' = "layer"
    /\ chain' = ch
    /\ args' = a
    /\ depth' = 1
    /\ received' = <<a>>
    /\ events' = Append(events, Event("call", "handler", 0, Undefined))
    /\ UNCHANGED <<nextThrows, fcomp, lcomp, settled, nextId>>
    /\ UNCHANGED handlerVars

\* The async function of the wrapper at `depth` runs its try block: fn(...args)
\* calls what it wraps, the next wrapper or the repository function.
LayerCalls ==
    /\ pc = "layer"
    /\ lcomp = NoCompletion
    /\ depth \in 1..Len(chain)
    /\ Len(received) = depth
    /\ received' = Append(received, Spread(received[depth]))
    /\ depth' = depth + 1
    /\ events' = Append(events, Event("call", chain[depth], depth, Undefined))
    /\ UNCHANGED <<pc, nextThrows, chain, args, fcomp, lcomp, settled, nextId>>
    /\ UNCHANGED handlerVars

\* The repository function runs: it returns, throws, or returns a promise
\* that fulfils or rejects.
FunctionRuns(c) ==
    /\ pc = "layer"
    /\ depth = Len(chain) + 1
    /\ fcomp = NoCompletion
    /\ fcomp' = c
    /\ lcomp' = c
    /\ depth' = Len(chain)
    /\ events' = IF Failed(c) THEN Append(events, Event("fail", "fn", depth, c.value))
                              ELSE events
    /\ UNCHANGED <<pc, nextThrows, chain, args, received, settled, nextId>>
    /\ UNCHANGED handlerVars

\* the events of one run of a wrapper's async function, in the code's order:
\* its console output, then the settling of its promise
SettleEvents(w, level, b) ==
    [i \in 1..Len(b.logs) |-> Event("log", w, level, b.logs[i])]
    \o <<Event(b.result.state, w, level, b.result.value)>>

\* The await of the wrapper of kind w at `depth` ends and the rest of its
\* async function runs: it returns the value, or its catch clause runs.
LayerSettles(w) ==
    /\ pc = "layer"
    /\ lcomp # NoCompletion
    /\ depth \in 1..Len(chain)
    /\ chain[depth] = w
    /\ LET b == LayerBody(w, lcomp, nextId) IN
        /\ lcomp' = b.result
        /\ settled' = Append(settled, [wrapper |-> w, level |-> depth,
                                       saw |-> lcomp, result |-> b.result])
        /\ events' = events \o SettleEvents(w, depth, b)
        /\ nextId' = IF b.result.value.id = nextId THEN nextId + 1 ELSE nextId
    /\ depth' = depth - 1
    /\ UNCHANGED <<pc, nextThrows, chain, args, received, fcomp>>
    /\ UNCHANGED handlerVars

\* The handler's await of the outermost wrapper ends: with a result it sends
\* the response and returns; a rejection it does not catch rejects its promise.
HandlerResumes ==
    /\ pc = "layer"
    /\ lcomp # NoCompletion
    /\ depth = 0
    /\ pc' = "handled"
    /\ IF Failed(lcomp)
       THEN /\ hcomp' = Completion("promise", "rejected", lcomp.value)
            /\ events' = Append(events, Event("fail", "handler", 0, lcomp.value))
            /\ UNCHANGED resWrites
       ELSE /\ hcomp' = Completion("promise", "fulfilled", Undefined)
            /\ resWrites' = 1
            /\ events' = IF resWrites = 0
                         THEN Append(events, Event("send", "handler", 0, Undefined))
                         ELSE events
    /\ UNCHANGED <<nextThrows, nextCalls, returned>>
    /\ UNCHANGED layerVars

(* ----------------------- the asyncHandler wrapper ---------------------- *)
\* the rest of the wrapper's async function once the completion of the
\* handler is known: its calls of next, then the settling of its promise
RunAsyncHandler ==
    LET b == asyncHandler(hcomp, nextThrows) IN
    /\ nextCalls' = nextCalls \o [i \in 1..Len(b.calls) |-> [by |-> "wrapper", arg |-> b.calls[i]]]
    /\ returned' = b.result
    /\ events' = events
                 \o [i \in 1..Len(b.calls) |-> Event("next", "wrapper", 0, b.calls[i])]
                 \o <<Event(b.result.state, "wrapper", 0, b.result.value)>>
    /\ pc' = "done"

\* requestHandler(req, res, next) threw: the catch clause runs at once.
AsyncHandlerCatchesThrow ==
    /\ pc = "handled"
    /\ hcomp.type = "throw"
    /\ RunAsyncHandler
    /\ UNCHANGED <<nextThrows, hcomp, resWrites>>
    /\ UNCHANGED layerVars

\* requestHandler returned: await Promise.resolve(...) suspends the wrapper.
AsyncHandlerSuspends ==
    /\ pc = "handled"
    /\ hcomp.type # "throw"
    /\ pc' = "suspended"
    /\ UNCHANGED <<nextThrows, events>>
    /\ UNCHANGED handlerVars
    /\ UNCHANGED layerVars

\* The awaited promise settled: the wrapper ends, through its catch clause
\* when the promise rejected.
AsyncHandlerResumes ==
    /\ pc = "suspended"
    /\ RunAsyncHandler
    /\ UNCHANGED <<nextThrows, hcomp, resWrites>>
    /\ UNCHANGED layerVars

(* --------------------------- specification ----------------------------- *)
Next ==
    \/ Invoke
    \/ \E v \in NextArgs : HandlerCallsNext(v)
    \/ HandlerSends
    \/ \E c \in Behaviours : HandlerCompletes(c)
    \/ \E ch \in Chains, a \in ArgLists : HandlerCallsLayer(ch, a)
    \/ LayerCalls
    \/ \E c \in FnBehaviours : FunctionRuns(c)
    \/ \E w \in Wrappers : LayerSettles(w)
    \/ HandlerResumes
    \/ AsyncHandlerCatchesThrow
    \/ AsyncHandlerSuspends
    \/ AsyncHandlerResumes

Spec == Init /\ [][Next]_vars

\* The event loop runs every callback and every settled promise's continuation:
\* a step that can be taken is taken.
FairSpec == Spec /\ WF_vars(Next)

(* ------------------------------ claims --------------------------------- *)
\* the calls of next that dispatch an error
ErrorCalls(calls) == SelectSeq(calls, LAMBDA k : IsErrorArg(k.arg))

\* the request went through the whole wrapper
Done == pc = "done"

\* C1: when the handler throws e or its promise or thenable rejects with e,
\* the wrapper calls next exactly once, with e itself, and it makes no call
\* of next before the request is through; a synchronous throw and a rejection
\* give the same single call.
C1_ForwardsSameErrorOnce ==
    /\ ~Done => CallsBy("wrapper") = <<>>
    /\ (Done /\ Failed(hcomp)) =>
           CallsBy("wrapper") = <<[by |-> "wrapper", arg |-> hcomp.value]>>

C1_Witness ==
    /\ Done
    /\ hcomp = Completion("thenable", "rejected", NotFound)
    /\ CallsBy("wrapper") = <<[by |-> "wrapper", arg |-> NotFound]>>

\* C2 as stated: for one request next is called with an error at most once,
\* the handler's own calls and the wrapper's call counted together.
C2_AtMostOneErrorDispatched == Len(ErrorCalls(nextCalls)) <= 1

\* C2 as amended: the wrapper itself calls next at most once, so next is
\* called with an error at most once more than the handler called it with an
\* error itself; and the wrapper's call comes after the throw or rejection of
\* the error it passes.
C2_WrapperDispatchesAtMostOnce ==
    /\ Len(CallsBy("wrapper")) <= 1
    /\ Len(ErrorCalls(nextCalls)) <= Len(ErrorCalls(CallsBy("handler"))) + 1
    /\ ErrorCalls(CallsBy("handler")) = <<>> => Len(ErrorCalls(nextCalls)) <= 1
    /\ \A j \in 1..Len(events) :
           (events[j].ev = "next" /\ events[j].who = "wrapper") =>
               \E i \in 1..(j - 1) :
                   /\ events[i].ev = "fail"
                   /\ events[i].who = "handler"
                   /\ events[i].val = events[j].val

C2_Witness ==
    /\ Done
    /\ ~nextThrows
    /\ hcomp = Completion("promise", "rejected", MongoDup)
    /\ nextCalls = <<[by |-> "handler", arg |-> PlainError],
                     [by |-> "wrapper", arg |-> MongoDup]>>

\* C3: when the handler returns a plain value or its promise fulfils, the
\* wrapper calls next not at all: every call of next is the handler's own,
\* none when the handler only sent the response.
C3_NoNextOnSuccess ==
    (Done /\ ~Failed(hcomp)) =>
        /\ CallsBy("wrapper") = <<>>
        /\ nextCalls = CallsBy("handler")

C3_Witness ==
    /\ Done
    /\ hcomp = Completion("promise", "fulfilled", Undefined)
    /\ resWrites = 1
    /\ nextCalls = <<>>

\* C10: calling the wrapped handler gives a promise and never throws; that
\* promise rejects only when next threw inside the catch clause, and then it
\* does reject, with the exception of next.
C10_RejectsOnlyWhenNextThrows ==
    /\ returned.type \in {"none", "promise"}
    /\ ~nextThrows => returned.state # "rejected"
    /\ returned.state = "rejected" =>
           /\ nextThrows
           /\ Failed(hcomp)
           /\ CallsBy("wrapper") # <<>>
           /\ returned.value = NextFailure
    /\ Done => returned.state = (IF nextThrows /\ Failed(hcomp) THEN "rejected"
                                                              ELSE "fulfilled")

C10_Witness ==
    /\ Done
    /\ ~nextThrows
    /\ hcomp = Completion("throw", "none", Null)
    /\ returned = Completion("promise", "fulfilled", Undefined)

\* the runs of the wrappers of kind w that ended so far
SettledBy(w) == {i \in 1..Len(settled) : settled[i].wrapper = w}

\* the runs of any wrapper whose wrapped call threw or rejected
CaughtRuns == {i \in 1..Len(settled) : Failed(settled[i].saw)}

\* C4: the Mongo and Prisma wrappers hand an error that is already a Tagged
\* Error on as it is: the rejection is the AppError they caught, with its
\* category, not a new AppError around it.
C4_NeverRetranslatesTagged ==
    \A i \in CaughtRuns \cap (SettledBy("mongo") \cup SettledBy("prisma")) :
        IsAppError(settled[i].saw.value) =>
            settled[i].result = Completion("promise", "rejected", settled[i].saw.value)

\* the rejection of the outermost wrapper reached next through the wrapper
Dispatched ==
    \E k \in 1..Len(nextCalls) :
        /\ nextCalls[k].by = "wrapper"
        /\ nextCalls[k].arg = lcomp.value
        /\ Failed(lcomp)

\* every wrapper whose wrapped call threw or rejected has rejected
LayersReject == \A i \in CaughtRuns : settled[i].result.state = "rejected"

C6_MongoTagsEveryError ==
    \A i \in CaughtRuns \cap SettledBy("mongo") :
        LET x == settled[i].saw.value
            r == settled[i].result
        IN  /\ r.type = "promise"
            /\ r.state = "rejected"
            /\ r.value = mongoError("Mongo Error", x, r.value.id)
            /\ IsAppError(r.value)
            /\ r.value.category = "mongo"
            /\ r.value.message = "Mongo Error"
            /\ x.code # 0 => /\ r.value.detail.code = x.code
                             /\ r.value.detail.keyValue = x.keyValue
            /\ r.value # x
            /\ r.value.id # x.id
            /\ \A j \in 1..Len(settled) : j < i => settled[j].result.value.id # r.value.id

C6_Witness ==
    \E i \in SettledBy("mongo") :
        /\ settled[i].saw = Completion("promise", "rejected", MongoDup)
        /\ settled[i].result.value.category = "mongo"
        /\ settled[i].result.value.detail.code = 11000

\* the position in the trace of the settling of the wrapper at level l
SettlingAt(l) ==
    {j \in 1..Len(events) : events[j].level = l /\ events[j].ev \in {"fulfilled", "rejected"}}

\* C7: the Prisma wrapper logs the original exception exactly once, right
\* before it rejects with AppError.prismaError("Prisma Error", original); it
\* never rejects without that log and never logs when the wrapped function
\* succeeded.
C7_PrismaLogsThenRejects ==
    /\ \A i \in SettledBy("prisma") :
           LET x == settled[i].saw.value
               r == settled[i].result
               logged == {j \in 1..Len(events) :
                             events[j].ev = "log" /\ events[j].level = settled[i].level}
           IN  IF Failed(settled[i].saw)
               THEN /\ r.state = "rejected"
                    /\ r.value = prismaError("Prisma Error", x, r.value.id)
                    /\ Cardinality(logged) = 1
                    /\ \A j \in logged :
                           /\ events[j] = Event("log", "prisma", settled[i].level, x)
                           /\ SettlingAt(settled[i].level) = {j + 1}
                           /\ events[j + 1] = Event("rejected", "prisma", settled[i].level, r.value)
               ELSE /\ r.state = "fulfilled"
                    /\ logged = {}
    /\ \A j \in 1..Len(events) :
           events[j].ev = "log" =>
               \E i \in SettledBy("prisma") : settled[i].level = events[j].level

C7_Witness ==
    \E i \in SettledBy("prisma") :
        /\ settled[i].saw = Completion("throw", "none", PrismaUnique)
        /\ settled[i].result.value.detail.pcode = "P2002"
        /\ \E j \in 1..Len(events) : events[j].ev = "log" /\ events[j].val = PrismaUnique

\* how the caller gets a result: at once, or through a promise
Form(c) == IF c.type \in {"promise", "thenable"} THEN "async" ELSE "sync"

\* every level was called once, with the arguments of the handler's call
ArgumentsForwarded ==
    /\ Len(received) <= Len(chain) + 1
    /\ \A i \in 1..Len(received) : received[i] = args
    /\ fcomp # NoCompletion => Len(received) = Len(chain) + 1

\* C8 as stated: the wrapped function is called once with the same arguments
\* and, when it succeeds, the caller gets back what it returned in the same
\* form, a plain value for a synchronous function.
C8_SameSignatureSameForm ==
    /\ ArgumentsForwarded
    /\ \A i \in 1..Len(settled) :
           ~Failed(settled[i].saw) =>
               /\ settled[i].result.value = settled[i].saw.value
               /\ Form(settled[i].result) = Form(settled[i].saw)

\* C8 as amended: the wrapped function is called once with the same
\* arguments in the same order and, when it succeeds, the caller gets a
\* promise fulfilled with the value it returned or its promise fulfilled
\* with, also when the wrapped function is synchronous.
C8_ForwardsArgsReturnsPromise ==
    /\ ArgumentsForwarded
    /\ \A i \in 1..Len(settled) :
           ~Failed(settled[i].saw) =>
               settled[i].result = Completion("promise", "fulfilled", settled[i].saw.value)

C8_Witness ==
    /\ args = <<Data, Data2>>
    /\ Len(chain) = 2
    /\ received = <<args, args, args>>
    /\ fcomp = Completion("value", "none", Data)
    /\ lcomp = Completion("promise", "fulfilled", Data)
    /\ Len(settled) = 2

====
